---- MODULE Spec2Model ----
(***************************************************************************)
(* LinuxHandController: the frame loop of main.py with the claw detector,  *)
(* the rotation calculator, the smoothers, the rate limiters and the two   *)
(* level sinks (volume for the Right hand, brightness for the Left hand).  *)
(*                                                                         *)
(* Numbers.  Angles handed to the smoothers are reals in the source; here  *)
(* they are exact fixed-point integers in units of 1/Scale degree, where   *)
(* Scale is a power of ten large enough for every smoothing step of a run  *)
(* to be exact.  Fingertip spreads are in thousandths, time is in units of *)
(* 75 ms.  A hand is given by the three quantities the code derives from   *)
(* its landmarks: the mean fingertip spread, the number of fingertips      *)
(* close to the palm, and the raw palm angle in whole degrees.             *)
(***************************************************************************)
EXTENDS Integers, Sequences, FiniteSets, TLC

VARIABLES
    cfg,        \* AppConfig values fixed at construction: alpha (tenths), min_interval
    run,        \* the objects and locals of main(): see InitRun
    twin,       \* a second run of the program, for comparing two runs (SpecPair)
    fixed,      \* the side that is given the same observations in both runs (SpecPair)
    now,        \* time.time(), in units of 75 ms
    pc,         \* position of the frame loop: "grab" (loop head) or "hands" (in the for loop)
    queue,      \* sides of the hands of this frame still to be processed, in order
    nframes,    \* frames grabbed so far
    nexternal,  \* out-of-band level changes so far
    nfailures,  \* failed sink commands so far
    nboth,      \* frames with two hands so far
    e2e         \* monitor of the end-to-end scenario: frames matched so far, or -1

vars == <<cfg, run, twin, fixed, now, pc, queue, nframes, nexternal, nfailures, nboth, e2e>>

------------------------------------------------------------------------------
\* Bounds of the model
MaxFrames == 4
MaxExternal == 1
MaxFailures == 1
MaxBoth == 1
MaxTrackerSteps == 4
MaxPairFrames == 2
MaxClock == 6
MaxHandlerCalls == 2
MaxSideCalls == 3
EpochStart == 100

\* Program constants
DEGREES_PER_10_PERCENT == 10
HYSTERESIS_SPREAD_TENTHS == 12
HYSTERESIS_FINGER_REDUCTION == 1
MAX_FINGERTIP_SPREAD == 150
MIN_FINGERS_CLOSE == 3
UPDATE_INTERVAL == 2
SMOOTHING_ALPHA_TENTHS == 3
ALPHA_DEN == 10
VOLUME_MIN == 0
VOLUME_MAX == 100
BRIGHTNESS_MIN == 5
BRIGHTNESS_MAX == 100
DEFAULT_LEVEL == 50

Sides == {"Right", "Left"}

RECURSIVE Pow10(_)
Pow10(n) == IF n = 0 THEN 1 ELSE 10 * Pow10(n - 1)

\* One unit of angle is 1/Scale degree: a smoother is updated at most once per
\* frame, and each update after the first divides by ALPHA_DEN once.
Scale == Pow10(MaxFrames)

\* Inputs
Shapes == {<<100, 3>>, <<150, 3>>, <<180, 3>>}   \* <<spread, fingers close>>
RawAngles == {0, 2, 30, 60}
Dts == {1}
HandLists == {<< >>, <<"Right">>, <<"Left">>, <<"Right", "Left">>, <<"Left", "Right">>}
DefaultConfig == [alpha |-> SMOOTHING_ALPHA_TENTHS, min_interval |-> UPDATE_INTERVAL,
                  min_fingers_close |-> MIN_FINGERS_CLOSE]
ScenarioConfig == [alpha |-> ALPHA_DEN, min_interval |-> 0,
                   min_fingers_close |-> MIN_FINGERS_CLOSE]
SinkReports(side) == IF side = "Right" THEN {150} ELSE {0}
IOOutcomes == {"ok", "get_fails", "set_fails"}

\* Optional values: None, or Some(v)
None == << >>
Some(v) == <<v>>
Val(o) == o[1]

Max(a, b) == IF a >= b THEN a ELSE b
Min(a, b) == IF a <= b THEN a ELSE b
Abs(x) == IF x >= 0 THEN x ELSE -x

------------------------------------------------------------------------------
\* ClawDetector.detect: thresholds in force and the classification

SpreadThresholdTightOnly(is_claw) == MAX_FINGERTIP_SPREAD * 10

\* spread threshold, times ten (spread*10 is compared with it)
SpreadThreshold(is_claw) ==
    IF is_claw THEN MAX_FINGERTIP_SPREAD * HYSTERESIS_SPREAD_TENTHS
               ELSE MAX_FINGERTIP_SPREAD * 10

\* fingers threshold; min_fingers_close is the detector's constructor argument
FingersThreshold(is_claw) ==
    IF is_claw THEN Max(2, cfg.min_fingers_close - HYSTERESIS_FINGER_REDUCTION)
               ELSE cfg.min_fingers_close

detect(is_claw, hand) ==
    /\ hand.spread * 10 < SpreadThreshold(is_claw)
    /\ hand.fingers >= FingersThreshold(is_claw)

------------------------------------------------------------------------------
\* RotationCalculator

\* RotationCalculator.__init__ and RotationCalculator.reset
ResetRotation == [accumulated_angle |-> 0, last_raw_angle |-> None, baseline_angle |-> None]

UnwrapNoSeam(diff) == diff

\* the -180/+180 boundary crossing
Unwrap(diff) ==
    IF diff > 180 THEN diff - 360
    ELSE IF diff < -180 THEN diff + 360
    ELSE diff

calculate_roll_late_last_raw(rc, hand) ==
    LET new == IF rc.baseline_angle = None
                 THEN [rc EXCEPT !.baseline_angle = Some(hand.raw), !.accumulated_angle = 0]
               ELSE IF rc.last_raw_angle # None
                 THEN [rc EXCEPT !.accumulated_angle =
                                      @ + Unwrap(hand.raw - Val(rc.last_raw_angle)),
                                 !.last_raw_angle = Some(hand.raw)]
               ELSE [rc EXCEPT !.last_raw_angle = Some(hand.raw)]
    IN  [rc |-> new,
         ret |-> IF hand.side = "Left" THEN -new.accumulated_angle
                                       ELSE new.accumulated_angle]

calculate_roll_unmirrored(rc, hand) ==
    LET upd == IF rc.baseline_angle = None
                 THEN [rc EXCEPT !.baseline_angle = Some(hand.raw), !.accumulated_angle = 0]
               ELSE IF rc.last_raw_angle # None
                 THEN [rc EXCEPT !.accumulated_angle =
                                      @ + Unwrap(hand.raw - Val(rc.last_raw_angle))]
               ELSE rc
        new == [upd EXCEPT !.last_raw_angle = Some(hand.raw)]
    IN  [rc |-> new, ret |-> new.accumulated_angle]

calculate_roll_absolute(rc, hand) ==
    LET upd == IF rc.baseline_angle = None
                 THEN [rc EXCEPT !.baseline_angle = Some(hand.raw),
                                 !.accumulated_angle = hand.raw]
               ELSE IF rc.last_raw_angle # None
                 THEN [rc EXCEPT !.accumulated_angle =
                                      @ + Unwrap(hand.raw - Val(rc.last_raw_angle))]
               ELSE rc
        new == [upd EXCEPT !.last_raw_angle = Some(hand.raw)]
    IN  [rc |-> new,
         ret |-> IF hand.side = "Left" THEN -new.accumulated_angle
                                       ELSE new.accumulated_angle]

\* calculate_roll: the tracker after the call and the angle returned (degrees)
calculate_roll(rc, hand) ==
    LET upd == IF rc.baseline_angle = None
                 THEN [rc EXCEPT !.baseline_angle = Some(hand.raw), !.accumulated_angle = 0]
               ELSE IF rc.last_raw_angle # None
                 THEN [rc EXCEPT !.accumulated_angle =
                                      @ + Unwrap(hand.raw - Val(rc.last_raw_angle))]
               ELSE rc
        new == [upd EXCEPT !.last_raw_angle = Some(hand.raw)]
    IN  [rc |-> new,
         ret |-> IF hand.side = "Left" THEN -new.accumulated_angle
                                       ELSE new.accumulated_angle]

------------------------------------------------------------------------------
EmaUpdateSeedSmoothed(alpha, value, new_value) ==
    (alpha * new_value + (ALPHA_DEN - alpha) * (IF value = None THEN 0 ELSE Val(value)))
        \div ALPHA_DEN

\* ExponentialMovingAverage.update: the new stored (and returned) value
EmaUpdate(alpha, value, new_value) ==
    IF value = None THEN new_value
    ELSE (alpha * new_value + (ALPHA_DEN - alpha) * Val(value)) \div ALPHA_DEN

ElapsedStrict(min_interval, last_update, current_time) ==
    current_time - last_update > min_interval

\* RateLimiter.should_update: the test "current_time - self._last_update >= self._min_interval"
Elapsed(min_interval, last_update, current_time) ==
    current_time - last_update >= min_interval

should_update_keeps_reference(min_interval, last_update, current_time) ==
    [ret |-> Elapsed(min_interval, last_update, current_time), last_update |-> last_update]

\* RateLimiter.should_update: the value returned and the reference kept
should_update(min_interval, last_update, current_time) ==
    IF Elapsed(min_interval, last_update, current_time)
    THEN [ret |-> TRUE, last_update |-> current_time]
    ELSE [ret |-> FALSE, last_update |-> last_update]

\* RateLimiter.__init__ and RateLimiter.reset
ResetLimiter == 0

------------------------------------------------------------------------------
\* Level sinks

GetLevelStale(level, outcome) == DEFAULT_LEVEL

\* get_level: what the sink reports, or the default when the command fails
GetLevel(level, outcome) ==
    IF outcome = "get_fails" THEN DEFAULT_LEVEL ELSE level

ChannelMin(side) == IF side = "Right" THEN VOLUME_MIN ELSE BRIGHTNESS_MIN
ChannelMax(side) == IF side = "Right" THEN VOLUME_MAX ELSE BRIGHTNESS_MAX

\* set_level: the sink clamps again and runs the command, which may fail
SetLevel(side, level, v, outcome) ==
    IF outcome = "set_fails" THEN level
    ELSE Max(ChannelMin(side), Min(ChannelMax(side), v))

\* int(): truncation toward zero of x / d, d > 0
TruncDiv(x, d) == IF x >= 0 THEN x \div d ELSE -((-x) \div d)

LevelChangeNoScale(angle_delta) ==
    TruncDiv(angle_delta, DEGREES_PER_10_PERCENT * Scale)

LevelChangeFloor(angle_delta) ==
    (angle_delta * 10) \div (DEGREES_PER_10_PERCENT * Scale)

LevelChangeRounded(angle_delta) ==
    LET d == 2 * DEGREES_PER_10_PERCENT * Scale
    IN  TruncDiv(2 * angle_delta * 10
                    + (IF angle_delta >= 0 THEN 1 ELSE -1) * DEGREES_PER_10_PERCENT * Scale, d)

\* int(angle_delta / DEGREES_PER_10_PERCENT * 10), angle_delta in 1/Scale degree
LevelChange(angle_delta) ==
    TruncDiv(angle_delta * 10, DEGREES_PER_10_PERCENT * Scale)

------------------------------------------------------------------------------
\* The delta-mode handlers.  Each takes the rotation angle (degrees), the
\* channel's smoother value, sink level, limiter reference and previous
\* accepted angle, the outcome of the sink commands and the time, and gives
\* the new values, the angle returned to the caller (ret) and the sink calls.

ClampVolumeNoUpper(v) == Max(VOLUME_MIN, v)

\* max(0, min(100, current_volume + volume_change))
ClampVolume(v) == Max(VOLUME_MIN, Min(VOLUME_MAX, v))

ClampBrightnessLowerOnly(v) == Max(BRIGHTNESS_MIN, v)

\* max(5, min(100, current_brightness + brightness_change))
ClampBrightness(v) == Max(BRIGHTNESS_MIN, Min(BRIGHTNESS_MAX, v))

RateLimitedReturnAdopts(prev_angle, smoothed_angle) == Some(smoothed_angle)

\* "return prev_angle" of the rate-limited branch
RateLimitedReturn(prev_angle, smoothed_angle) == prev_angle

GetCall(side, v) == [op |-> "get_level", side |-> side, v |-> v]
SetCall(side, v) == [op |-> "set_level", side |-> side, v |-> v]
SetIssued(calls) == \E i \in 1..Len(calls) : calls[i].op = "set_level"

handle_volume_control_from_zero(rotation_angle, value, level, last_update, prev_angle, outcome, t) ==
    LET smoothed_angle == EmaUpdate(cfg.alpha, value, rotation_angle * Scale)
        volume_change == LevelChange(smoothed_angle -
                                     (IF prev_angle = None THEN 0 ELSE Val(prev_angle)))
        current_volume == GetLevel(level, outcome)
        new_volume == ClampVolume(current_volume + volume_change)
        lim == should_update(cfg.min_interval, last_update, t)
        base == [value |-> Some(smoothed_angle), level |-> level,
                 last_update |-> last_update, ret |-> Some(smoothed_angle),
                 calls |-> << >>, smoothed |-> smoothed_angle,
                 change |-> volume_change, consulted |-> FALSE, permitted |-> FALSE]
    IN  IF volume_change # 0
        THEN IF lim.ret
             THEN [base EXCEPT !.level = SetLevel("Right", level, new_volume, outcome),
                               !.last_update = lim.last_update,
                               !.calls = <<GetCall("Right", current_volume),
                                           SetCall("Right", new_volume)>>,
                               !.consulted = TRUE, !.permitted = TRUE]
             ELSE [base EXCEPT !.ret = RateLimitedReturn(prev_angle, smoothed_angle),
                               !.last_update = lim.last_update,
                               !.calls = <<GetCall("Right", current_volume)>>,
                               !.consulted = TRUE]
        ELSE base

handle_volume_control(rotation_angle, value, level, last_update, prev_angle, outcome, t) ==
    LET smoothed_angle == EmaUpdate(cfg.alpha, value, rotation_angle * Scale)
        volume_change == IF prev_angle = None THEN 0
                         ELSE LevelChange(smoothed_angle - Val(prev_angle))
        current_volume == GetLevel(level, outcome)
        new_volume == ClampVolume(current_volume + volume_change)
        lim == should_update(cfg.min_interval, last_update, t)
        base == [value |-> Some(smoothed_angle), level |-> level,
                 last_update |-> last_update, ret |-> Some(smoothed_angle),
                 calls |-> << >>, smoothed |-> smoothed_angle,
                 change |-> volume_change, consulted |-> FALSE, permitted |-> FALSE]
    IN  IF prev_angle # None /\ volume_change # 0
        THEN IF lim.ret
             THEN [base EXCEPT !.level = SetLevel("Right", level, new_volume, outcome),
                               !.last_update = lim.last_update,
                               !.calls = <<GetCall("Right", current_volume),
                                           SetCall("Right", new_volume)>>,
                               !.consulted = TRUE, !.permitted = TRUE]
             ELSE [base EXCEPT !.ret = RateLimitedReturn(prev_angle, smoothed_angle),
                               !.last_update = lim.last_update,
                               !.calls = <<GetCall("Right", current_volume)>>,
                               !.consulted = TRUE]
        ELSE base

handle_brightness_control(rotation_angle, value, level, last_update, prev_angle, outcome, t) ==
    LET smoothed_angle == EmaUpdate(cfg.alpha, value, rotation_angle * Scale)
        brightness_change == IF prev_angle = None THEN 0
                             ELSE LevelChange(smoothed_angle - Val(prev_angle))
        current_brightness == GetLevel(level, outcome)
        new_brightness == ClampBrightness(current_brightness + brightness_change)
        lim == should_update(cfg.min_interval, last_update, t)
        base == [value |-> Some(smoothed_angle), level |-> level,
                 last_update |-> last_update, ret |-> Some(smoothed_angle),
                 calls |-> << >>, smoothed |-> smoothed_angle,
                 change |-> brightness_change, consulted |-> FALSE, permitted |-> FALSE]
    IN  IF prev_angle # None /\ brightness_change # 0
        THEN IF lim.ret
             THEN [base EXCEPT !.level = SetLevel("Left", level, new_brightness, outcome),
                               !.last_update = lim.last_update,
                               !.calls = <<GetCall("Left", current_brightness),
                                           SetCall("Left", new_brightness)>>,
                               !.consulted = TRUE, !.permitted = TRUE]
             ELSE [base EXCEPT !.ret = RateLimitedReturn(prev_angle, smoothed_angle),
                               !.last_update = lim.last_update,
                               !.calls = <<GetCall("Left", current_brightness)>>,
                               !.consulted = TRUE]
        ELSE base

------------------------------------------------------------------------------
\* main(): the objects built before the loop and the loop's locals

InitRun(levels) ==
    [is_claw       |-> FALSE,                        \* claw_detector._is_claw
     rotation_calc |-> ResetRotation,                \* rotation_calc
     smoother      |-> [s \in Sides |-> None],       \* volume_/brightness_smoother._value
     limiter       |-> [s \in Sides |-> ResetLimiter],         \* volume_/brightness_limiter._last_update
     prev_angle    |-> [s \in Sides |-> None],       \* prev_volume_/prev_brightness_angle
     level         |-> levels,                       \* what each sink holds
     last          |-> None,                         \* the hand processed last: what was done
     claw_sides    |-> {},                           \* sides classified claw in this frame
     empty         |-> FALSE,                        \* this frame had no hand
     last_claw     |-> {},                           \* sides classified claw in the frame before
     last_empty    |-> FALSE,                        \* the frame before had no hand
     deferred      |-> [s \in Sides |-> None],       \* previous accepted angle kept by a
                                                     \* rate-limited call, while its run lasts
     unapplied     |-> [s \in Sides |-> None],       \* value of the last set_level, if it failed
     seen_sides    |-> {},                           \* sides that have a hand in this frame
     last_seen     |-> {},                           \* sides that had a hand in the frame before
     last_set      |-> [s \in Sides |-> None],       \* time of the channel's last set_level
     prev_set      |-> [s \in Sides |-> None]]       \* time of the set_level before that one

BeginFrameResetsLimiters(r, sides) ==
    [r EXCEPT !.rotation_calc = IF sides = << >> THEN ResetRotation ELSE @,
              !.limiter = IF sides = << >> THEN [s \in Sides |-> ResetLimiter] ELSE @,
              !.last = None,
              !.claw_sides = {},
              !.empty = (sides = << >>),
              !.last_claw = r.claw_sides,
              !.last_empty = r.empty,
              !.seen_sides = {sides[i] : i \in 1..Len(sides)},
              !.last_seen = r.seen_sides]

\* lines 79-92: a frame is grabbed, its hands are found; no hands resets the tracker
BeginFrame(r, sides) ==
    [r EXCEPT !.rotation_calc = IF sides = << >> THEN ResetRotation ELSE @,
              !.last = None,
              !.claw_sides = {},
              !.empty = (sides = << >>),
              !.last_claw = r.claw_sides,
              !.last_empty = r.empty,
              !.seen_sides = {sides[i] : i \in 1..Len(sides)},
              !.last_seen = r.seen_sides]

IdleResetTrackerOnly(r, side) ==
    [r EXCEPT !.rotation_calc = ResetRotation]

\* lines 115-117 and 132-138: the resets for a hand that is not a claw
IdleReset(r, side) ==
    [r EXCEPT !.rotation_calc = ResetRotation,
              !.smoother[side] = None,
              !.prev_angle[side] = None]

\* lines 95-140: the loop body for one hand
ProcessOneHand(r, hand, outcome, t) ==
    LET side == hand.side
        is_claw == detect(r.is_claw, hand)
        roll == calculate_roll(r.rotation_calc, hand)
        h == IF side = "Right"
             THEN handle_volume_control(roll.ret, r.smoother[side], r.level[side],
                                        r.limiter[side], r.prev_angle[side], outcome, t)
             ELSE handle_brightness_control(roll.ret, r.smoother[side], r.level[side],
                                            r.limiter[side], r.prev_angle[side], outcome, t)
        \* the sink command that failed in this call, if one was run and failed
        failed == IF outcome = "get_fails" /\ h.calls # << >> THEN "get_fails"
                  ELSE IF outcome = "set_fails" /\ h.permitted THEN "set_fails"
                  ELSE "ok"
        seen == [side |-> side, is_claw |-> is_claw,
                 reset_before |-> (r.rotation_calc = ResetRotation),
                 prev_before |-> r.prev_angle[side],
                 deferred_before |-> r.deferred[side],
                 was_claw |-> r.is_claw,
                 level_before |-> r.level[side],
                 unapplied_before |-> r.unapplied[side]]
    IN  IF is_claw
        THEN [r EXCEPT !.is_claw = TRUE,
                       !.rotation_calc = roll.rc,
                       !.smoother[side] = h.value,
                       !.limiter[side] = h.last_update,
                       !.prev_angle[side] = h.ret,
                       !.level[side] = h.level,
                       !.deferred[side] = IF h.consulted /\ ~h.permitted
                                          THEN r.prev_angle[side] ELSE None,
                       !.claw_sides = @ \cup {side},
                       !.last_set[side] = IF SetIssued(h.calls) THEN Some(t) ELSE @,
                       !.prev_set[side] = IF SetIssued(h.calls) THEN r.last_set[side] ELSE @,
                       !.unapplied[side] = IF failed = "set_fails" THEN Some(h.calls[2].v)
                                           ELSE IF h.permitted THEN None ELSE @,
                       !.last = Some(
                           seen @@ [rotation |-> Some(roll.ret), smoothed |-> Some(h.smoothed),
                                    change |-> h.change, consulted |-> h.consulted,
                                    permitted |-> h.permitted, calls |-> h.calls,
                                    failed |-> failed])]
        ELSE [IdleReset(r, side) EXCEPT
                       !.is_claw = FALSE,
                       !.deferred[side] = None,
                       !.last = Some(
                           seen @@ [rotation |-> None, smoothed |-> None,
                                    change |-> 0, consulted |-> FALSE,
                                    permitted |-> FALSE, calls |-> << >>,
                                    failed |-> "ok"])]

Hands(side) ==
    {[side |-> side, spread |-> sh[1], fingers |-> sh[2], raw |-> raw] :
        sh \in Shapes, raw \in RawAngles}

------------------------------------------------------------------------------
\* The end-to-end scenario: Right claw at 0, 30, 60 degrees, alpha 1, interval 0,
\* a sink that starts at 50 and applies every set_level.
ScenarioAngles == <<0, 30, 60>>

ScenarioStart(c, levels) ==
    c.alpha = ALPHA_DEN /\ c.min_interval = 0 /\ levels["Right"] = DEFAULT_LEVEL

------------------------------------------------------------------------------
InitWith(c, f) ==
    /\ cfg = c
    /\ twin = InitRun([s \in Sides |-> DEFAULT_LEVEL])
    /\ fixed = f
    /\ run = InitRun([s \in Sides |-> DEFAULT_LEVEL])
    /\ e2e = IF ScenarioStart(cfg, run.level) THEN 0 ELSE -1
    /\ now = EpochStart
    /\ pc = "grab"
    /\ queue = << >>
    /\ nframes = 0
    /\ nexternal = 0
    /\ nfailures = 0
    /\ nboth = 0

\* lines 79-92: camera.read_frame and tracker.process_frame.  The reads of the
\* two levels for the overlay (lines 142-152) that end the iteration before
\* change no state.
GrabFrame ==
    /\ pc = "grab"
    /\ nframes < MaxFrames
    /\ \E dt \in Dts, sides \in HandLists :
          /\ Len(sides) = 2 => nboth < MaxBoth
          /\ nboth' = IF Len(sides) = 2 THEN nboth + 1 ELSE nboth
          /\ now' = now + dt
          /\ queue' = sides
          /\ run' = BeginFrame(run, sides)
          /\ pc' = IF sides = << >> THEN "grab" ELSE "hands"
          /\ e2e' = IF e2e \in 0..2 /\ sides = <<"Right">> THEN e2e ELSE -1
    /\ nframes' = nframes + 1
    /\ UNCHANGED <<cfg, twin, fixed, nexternal, nfailures>>

\* one iteration of "for idx, hand in enumerate(hands)"
ProcessHand ==
    /\ pc = "hands"
    /\ \E hand \in Hands(Head(queue)), outcome \in IOOutcomes :
          /\ outcome # "ok" => nfailures < MaxFailures
          /\ run' = ProcessOneHand(run, hand, outcome, now)
          /\ nfailures' = IF run'.last[1].failed # "ok" THEN nfailures + 1 ELSE nfailures
          /\ e2e' = IF /\ e2e \in 0..2
                       /\ hand.raw = ScenarioAngles[e2e + 1]
                       /\ detect(run.is_claw, hand)
                       /\ outcome = "ok"
                    THEN e2e + 1 ELSE -1
    /\ queue' = Tail(queue)
    /\ pc' = IF Tail(queue) = << >> THEN "grab" ELSE "hands"
    /\ UNCHANGED <<cfg, twin, fixed, now, nframes, nexternal, nboth>>

\* the level of a sink is changed by someone else between two frames
ExternalChange ==
    /\ pc = "grab"
    /\ nexternal < MaxExternal
    /\ \E side \in Sides : \E v \in SinkReports(side) :
          run' = [run EXCEPT !.level[side] = v]
    /\ nexternal' = nexternal + 1
    /\ e2e' = -1
    /\ UNCHANGED <<cfg, twin, fixed, now, pc, queue, nframes, nfailures, nboth>>

Next == GrabFrame \/ ProcessHand \/ ExternalChange

\* AppConfig(): the configuration the program runs with
Init == InitWith(DefaultConfig, "Right")
Spec == Init /\ [][Next]_vars

\* the program built with smoothing alpha 1 and rate-limit interval 0
InitScenario == InitWith(ScenarioConfig, "Right")
SpecScenario == InitScenario /\ [][Next]_vars

------------------------------------------------------------------------------
\* The classes on their own: any sequence of calls, with inputs from wider sets

DetectorSpreads == {0, 50, 100, 149, 150, 151, 165, 179, 180, 181, 200, 250}
DetectorFingers == 0..4
TrackerAngles == {-179, -90, 0, 90, 179, 180}
LimiterIntervals == {0, 2, 3}

Frozen == <<cfg, twin, fixed, now, pc, queue, nframes, nexternal, nfailures, nboth, e2e>>

\* ClawDetector.detect on one hand
DetectCall ==
    /\ \E spread \in DetectorSpreads, fingers \in DetectorFingers :
          LET hand == [side |-> "Right", spread |-> spread, fingers |-> fingers, raw |-> 0]
              is_claw == detect(run.is_claw, hand)
          IN  run' = [run EXCEPT !.is_claw = is_claw,
                                 !.last = Some([spread |-> spread, fingers |-> fingers,
                                                was_claw |-> run.is_claw,
                                                is_claw |-> is_claw])]
    /\ UNCHANGED Frozen

SpecDetector == Init /\ [][DetectCall]_vars

\* ClawDetector built with any min_fingers_close, detect called on any hands;
\* kept with each call: what detect gives for the same hand with the
\* tight and with the loose thresholds, and whether the hand is the one of
\* the call before
ConfiguredFingers == 1..4

HysteresisCall ==
    /\ \E spread \in DetectorSpreads, fingers \in DetectorFingers :
          LET hand == [side |-> "Right", spread |-> spread, fingers |-> fingers, raw |-> 0]
              is_claw == detect(run.is_claw, hand)
          IN  run' = [run EXCEPT !.is_claw = is_claw,
                                 !.last = Some([spread |-> spread, fingers |-> fingers,
                                                was_claw |-> run.is_claw,
                                                is_claw |-> is_claw,
                                                tight |-> detect(FALSE, hand),
                                                loose |-> detect(TRUE, hand),
                                                repeated |->
                                                    /\ run.last # None
                                                    /\ run.last[1].spread = spread
                                                    /\ run.last[1].fingers = fingers])]
    /\ UNCHANGED Frozen

InitHysteresis ==
    \E m \in ConfiguredFingers :
        InitWith([DefaultConfig EXCEPT !.min_fingers_close = m], "Right")

SpecHysteresis == InitHysteresis /\ [][HysteresisCall]_vars

\* RotationCalculator.calculate_roll on one hand
RollCall ==
    /\ nframes < MaxTrackerSteps
    /\ \E raw \in TrackerAngles, side \in Sides :
          LET hand == [side |-> side, spread |-> 0, fingers |-> 4, raw |-> raw]
              roll == calculate_roll(run.rotation_calc, hand)
          IN  run' = [run EXCEPT !.rotation_calc = roll.rc,
                                 !.last = Some([side |-> side, raw |-> raw,
                                                rc_before |-> run.rotation_calc,
                                                ret |-> roll.ret])]
    /\ nframes' = nframes + 1
    /\ UNCHANGED <<cfg, twin, fixed, now, pc, queue, nexternal, nfailures, nboth, e2e>>

\* RotationCalculator.reset
RollReset ==
    /\ run.rotation_calc # ResetRotation
    /\ run' = [run EXCEPT !.rotation_calc = ResetRotation, !.last = None]
    /\ UNCHANGED Frozen

NextTracker == RollCall \/ RollReset
SpecTracker == Init /\ [][NextTracker]_vars

\* Two trackers fed the same raw angles, one for a hand labelled Right (run),
\* one for a hand labelled Left (twin)
MirrorCall ==
    /\ nframes < MaxTrackerSteps
    /\ \E raw \in TrackerAngles :
          LET right == calculate_roll(run.rotation_calc,
                           [side |-> "Right", spread |-> 0, fingers |-> 4, raw |-> raw])
              left == calculate_roll(twin.rotation_calc,
                           [side |-> "Left", spread |-> 0, fingers |-> 4, raw |-> raw])
          IN  /\ run' = [run EXCEPT !.rotation_calc = right.rc,
                                    !.last = Some([side |-> "Right", raw |-> raw,
                                                   ret |-> right.ret])]
              /\ twin' = [twin EXCEPT !.rotation_calc = left.rc,
                                      !.last = Some([side |-> "Left", raw |-> raw,
                                                     ret |-> left.ret])]
    /\ nframes' = nframes + 1
    /\ UNCHANGED <<cfg, fixed, now, pc, queue, nexternal, nfailures, nboth, e2e>>

\* RotationCalculator.reset on both
MirrorReset ==
    /\ run.rotation_calc # ResetRotation
    /\ run' = [run EXCEPT !.rotation_calc = ResetRotation, !.last = None]
    /\ twin' = [twin EXCEPT !.rotation_calc = ResetRotation, !.last = None]
    /\ UNCHANGED <<cfg, fixed, now, pc, queue, nframes, nexternal, nfailures, nboth, e2e>>

NextMirror == MirrorCall \/ MirrorReset
SpecMirror == Init /\ [][NextMirror]_vars

\* The sinks' get_level on their own.  The command either is missing, fails,
\* or prints something: for pactl a text with or without a "<digits>%" in it,
\* for brightnessctl a number or something that is not one.
PactlPercents == 0..153
PactlResults ==
    {[status |-> st, value |-> 0] : st \in {"missing", "fails", "no_match"}} \cup
    {[status |-> "ok", value |-> p] : p \in PactlPercents}

BrightnessCurrents == {0, 1, 12, 13, 29, 100, 255}
BrightnessMaxima == {0, 100, 255}
BrightnessResults ==
    {[status |-> st, value |-> 0] : st \in {"missing", "fails", "not_a_number"}} \cup
    {[status |-> "ok", value |-> c] : c \in BrightnessCurrents}

\* VolumeController.get_level: the first "<digits>%" of the output, else the default
volume_get_level(result) ==
    IF result.status = "ok" THEN result.value ELSE DEFAULT_LEVEL

\* the pairs <<current, max>> among the values above for which the double
\* (current / max) * 100 lies just below the exact quotient, an integer
DoubleBelowQuotient == {<<29, 100>>, <<255, 100>>}

\* BrightnessController.get_level: int((current / self._max_brightness) * 100)
brightness_get_level(max_brightness, result) ==
    IF result.status = "ok" /\ max_brightness > 0
    THEN (result.value * 100) \div max_brightness
            - (IF <<result.value, max_brightness>> \in DoubleBelowQuotient THEN 1 ELSE 0)
    ELSE DEFAULT_LEVEL

VolumeGet ==
    /\ \E result \in PactlResults :
          run' = [run EXCEPT !.last = Some([side |-> "Right", result |-> result,
                                           ret |-> volume_get_level(result)])]
    /\ UNCHANGED Frozen

BrightnessGet ==
    /\ \E result \in BrightnessResults :
          run' = [run EXCEPT !.last = Some([side |-> "Left", result |-> result,
                                           ret |-> brightness_get_level(cfg.max_brightness,
                                                                        result)])]
    /\ UNCHANGED Frozen

\* BrightnessController.__init__: _max_brightness is what "brightnessctl max"
\* printed, or 100 when that command failed
InitSinks ==
    \E m \in BrightnessMaxima :
        InitWith([alpha |-> SMOOTHING_ALPHA_TENTHS, min_interval |-> UPDATE_INTERVAL,
                  max_brightness |-> m], "Right")

NextSinks == VolumeGet \/ BrightnessGet
SpecSinks == InitSinks /\ [][NextSinks]_vars

DEFAULT_MAX_BRIGHTNESS_VALUE == 100

\* what running the command does: it runs and exits with 0, it is not
\* installed, or it runs and exits with another status
CommandOutcomes == {"ok", "missing", "fails"}

\* the exception subprocess.call / subprocess.run raises; check is the
\* check=True of subprocess.run
CommandRaises(cmd, check) ==
    IF cmd = "missing" THEN "FileNotFoundError"
    ELSE IF cmd = "fails" /\ check THEN "CalledProcessError"
    ELSE "none"

\* subprocess.SubprocessError and its subclasses
SubprocessErrors == {"SubprocessError", "CalledProcessError", "TimeoutExpired"}

\* what leaves a try block with the given except clauses
Propagates(exc, caught) == IF exc \in caught THEN "none" ELSE exc

volume_set_level_subprocess_errors_only(level, v, cmd) ==
    [level |-> IF cmd = "ok" THEN Max(VOLUME_MIN, Min(VOLUME_MAX, v)) ELSE level,
     raised |-> Propagates(CommandRaises(cmd, FALSE), {"none"} \cup SubprocessErrors)]

\* VolumeController.set_level: the sink's level after the call and the
\* exception that leaves the call
volume_set_level(level, v, cmd) ==
    [level |-> IF cmd = "ok" THEN Max(VOLUME_MIN, Min(VOLUME_MAX, v)) ELSE level,
     raised |-> Propagates(CommandRaises(cmd, FALSE),
                           {"none", "FileNotFoundError"} \cup SubprocessErrors)]

\* BrightnessController.set_level
brightness_set_level(level, v, cmd) ==
    [level |-> IF cmd = "ok" THEN Max(BRIGHTNESS_MIN, Min(BRIGHTNESS_MAX, v)) ELSE level,
     raised |-> Propagates(CommandRaises(cmd, FALSE),
                           {"none", "FileNotFoundError"} \cup SubprocessErrors)]

\* time passes
Tick ==
    /\ now < EpochStart + MaxClock
    /\ now' = now + 1
    /\ UNCHANGED <<cfg, run, twin, fixed, pc, queue, nframes, nexternal, nfailures, nboth, e2e>>

\* RateLimiter.should_update on one of the two limiters
LimiterCall ==
    /\ \E side \in Sides :
          LET lim == should_update(cfg.min_interval, run.limiter[side], now)
          IN  run' = [run EXCEPT !.limiter[side] = lim.last_update,
                                 !.last = Some([side |-> side, t |-> now,
                                                ref_before |-> run.limiter[side],
                                                ret |-> lim.ret])]
    /\ UNCHANGED Frozen

\* RateLimiter.reset
LimiterReset ==
    /\ \E side \in Sides :
          /\ run.limiter[side] # ResetLimiter
          /\ run' = [run EXCEPT !.limiter[side] = ResetLimiter, !.last = None]
    /\ UNCHANGED Frozen

InitLimiter ==
    \E m \in LimiterIntervals :
        InitWith([alpha |-> SMOOTHING_ALPHA_TENTHS, min_interval |-> m], "Right")

NextLimiter == Tick \/ LimiterCall \/ LimiterReset
SpecLimiter == InitLimiter /\ [][NextLimiter]_vars

\* ExponentialMovingAverage.update on one of the two smoothers
SmootherInputs == {-30, 0, 10, 20}
SmootherAlphas == {SMOOTHING_ALPHA_TENTHS, ALPHA_DEN}

SmootherCall ==
    /\ nframes < MaxFrames
    /\ \E side \in Sides, x \in SmootherInputs :
          LET y == EmaUpdate(cfg.alpha, run.smoother[side], x * Scale)
          IN  run' = [run EXCEPT !.smoother[side] = Some(y),
                                 !.last = Some([side |-> side, x |-> x * Scale,
                                                value_before |-> run.smoother[side],
                                                ret |-> y])]
    /\ nframes' = nframes + 1
    /\ UNCHANGED <<cfg, twin, fixed, now, pc, queue, nexternal, nfailures, nboth, e2e>>

\* ExponentialMovingAverage.reset
SmootherReset ==
    /\ \E side \in Sides :
          /\ run.smoother[side] # None
          /\ run' = [run EXCEPT !.smoother[side] = None, !.last = None]
    /\ UNCHANGED Frozen

InitSmoother ==
    \E a \in SmootherAlphas :
        InitWith([alpha |-> a, min_interval |-> UPDATE_INTERVAL], "Right")

NextSmoother == SmootherCall \/ SmootherReset
SpecSmoother == InitSmoother /\ [][NextSmoother]_vars

\* handle_volume_control / handle_brightness_control on their own: one channel,
\* called with any rotation angle on a channel whose smoother value and
\* previous accepted angle are any of a few values (both unset, or both set),
\* once per time unit; the sink and the limiter are those of the calls before.
HandlerRotations == -4..4
HandlerValues == {-1, 0, 1}
HandlerPrevs == {0, 1}
HandlerStates ==
    {<<None, None>>} \cup
    {<<Some(v * Scale), Some(p * Scale)>> : v \in HandlerValues, p \in HandlerPrevs}

HandlerCall ==
    /\ nframes < MaxHandlerCalls
    /\ \E rotation_angle \in HandlerRotations, st \in HandlerStates :
          LET side == fixed
              h == IF side = "Right"
                   THEN handle_volume_control(rotation_angle, st[1], run.level[side],
                                              run.limiter[side], st[2], "ok", now + 1)
                   ELSE handle_brightness_control(rotation_angle, st[1], run.level[side],
                                                  run.limiter[side], st[2], "ok", now + 1)
          IN  run' = [run EXCEPT !.smoother[side] = h.value,
                                 !.limiter[side] = h.last_update,
                                 !.prev_angle[side] = h.ret,
                                 !.level[side] = h.level,
                                 !.last = Some([side |-> side, is_claw |-> TRUE,
                                                prev_before |-> st[2],
                                                limiter_before |-> run.limiter[side],
                                                level_before |-> run.level[side],
                                                smoothed |-> Some(h.smoothed),
                                                change |-> h.change,
                                                consulted |-> h.consulted,
                                                permitted |-> h.permitted,
                                                calls |-> h.calls])]
    /\ now' = now + 1
    /\ nframes' = nframes + 1
    /\ UNCHANGED <<cfg, twin, fixed, pc, queue, nexternal, nfailures, nboth, e2e>>

InitHandler == \E f \in Sides : InitWith(DefaultConfig, f)
SpecHandler == InitHandler /\ [][HandlerCall]_vars

\* a handler called with controllers whose commands may be missing or fail:
\* "brightnessctl max" printed 100, and each command prints the sink's level
FailingRotations == {-4, 0, 3}

FailingSinkCall ==
    /\ nframes < MaxHandlerCalls
    /\ pc # "aborted"
    /\ \E rotation_angle \in FailingRotations, st \in HandlerStates,
          get_cmd \in CommandOutcomes, set_cmd \in CommandOutcomes :
          LET side == fixed
              result == [status |-> get_cmd, value |-> run.level[side]]
              got == IF side = "Right" THEN volume_get_level(result)
                     ELSE brightness_get_level(cfg.max_brightness, result)
              outcome == IF set_cmd = "ok" THEN "ok" ELSE "set_fails"
              h == IF side = "Right"
                   THEN handle_volume_control(rotation_angle, st[1], got,
                                              run.limiter[side], st[2], outcome, now + 1)
                   ELSE handle_brightness_control(rotation_angle, st[1], got,
                                                  run.limiter[side], st[2], outcome, now + 1)
              set == IF ~SetIssued(h.calls)
                     THEN [level |-> run.level[side], raised |-> "none"]
                     ELSE IF side = "Right"
                     THEN volume_set_level(run.level[side], h.calls[2].v, set_cmd)
                     ELSE brightness_set_level(run.level[side], h.calls[2].v, set_cmd)
              seen == [side |-> side, prev_before |-> st[2],
                       get_cmd |-> IF h.calls # << >> THEN get_cmd ELSE "ok",
                       set_cmd |-> IF SetIssued(h.calls) THEN set_cmd ELSE "ok",
                       smoothed |-> Some(h.smoothed), change |-> h.change,
                       permitted |-> h.permitted, calls |-> h.calls,
                       raised |-> set.raised]
          IN  IF set.raised = "none"
              THEN /\ run' = [run EXCEPT !.smoother[side] = h.value,
                                         !.limiter[side] = h.last_update,
                                         !.prev_angle[side] = h.ret,
                                         !.level[side] = set.level,
                                         !.last = Some(seen)]
                   /\ pc' = pc
              ELSE /\ run' = [run EXCEPT !.smoother[side] = h.value,
                                         !.limiter[side] = h.last_update,
                                         !.prev_angle[side] = st[2],
                                         !.last = Some(seen)]
                   /\ pc' = "aborted"
    /\ now' = now + 1
    /\ nframes' = nframes + 1
    /\ UNCHANGED <<cfg, twin, fixed, queue, nexternal, nfailures, nboth, e2e>>

InitFailingSink ==
    \E f \in Sides :
        InitWith([alpha |-> SMOOTHING_ALPHA_TENTHS, min_interval |-> UPDATE_INTERVAL,
                  max_brightness |-> DEFAULT_MAX_BRIGHTNESS_VALUE], f)

SpecFailingSink == InitFailingSink /\ [][FailingSinkCall]_vars

\* the two handlers side by side: run keeps the objects handed to
\* handle_volume_control, twin those handed to handle_brightness_control; each
\* step calls both with the same rotation angle, at the same time, with
\* controllers whose get_level gives the same value
SideRotations == {-10, 0, 10}
SideLevels == {0, 2, 6, 50, 100}
SideDts == {1, 2}

SideBySideCall ==
    /\ nframes < MaxSideCalls
    /\ \E rotation_angle \in SideRotations, level \in SideLevels, dt \in SideDts :
          LET v == handle_volume_control(rotation_angle, run.smoother["Right"], level,
                                         run.limiter["Right"], run.prev_angle["Right"],
                                         "ok", now + dt)
              b == handle_brightness_control(rotation_angle, twin.smoother["Left"], level,
                                             twin.limiter["Left"], twin.prev_angle["Left"],
                                             "ok", now + dt)
          IN  /\ run' = [run EXCEPT !.smoother["Right"] = v.value,
                                    !.limiter["Right"] = v.last_update,
                                    !.prev_angle["Right"] = v.ret,
                                    !.level["Right"] = v.level,
                                    !.last = Some([side |-> "Right", got |-> level,
                                                   change |-> v.change,
                                                   permitted |-> v.permitted,
                                                   ret |-> v.ret, calls |-> v.calls])]
              /\ twin' = [twin EXCEPT !.smoother["Left"] = b.value,
                                      !.limiter["Left"] = b.last_update,
                                      !.prev_angle["Left"] = b.ret,
                                      !.level["Left"] = b.level,
                                      !.last = Some([side |-> "Left", got |-> level,
                                                     change |-> b.change,
                                                     permitted |-> b.permitted,
                                                     ret |-> b.ret, calls |-> b.calls])]
              /\ now' = now + dt
    /\ nframes' = nframes + 1
    /\ UNCHANGED <<cfg, fixed, pc, queue, nexternal, nfailures, nboth, e2e>>

InitSideBySide == InitWith(DefaultConfig, "Right")
SpecSideBySide == InitSideBySide /\ [][SideBySideCall]_vars

------------------------------------------------------------------------------
\* Two runs of the frame loop side by side.  In every frame the fixed side is
\* given the same observation in both runs (the same hand, or no hand), at
\* the same time; the other side's observation and the order of the hands in
\* the list are chosen freely in each run.

PairShapes == {<<100, 3>>, <<180, 3>>}
PairAngles == {0, 30}
Other(side) == IF side = "Right" THEN "Left" ELSE "Right"

\* what a side can show in one frame: nothing, or one hand
PairViews(side) ==
    {<< >>} \cup {<<[side |-> side, spread |-> sh[1], fingers |-> sh[2], raw |-> raw]>> :
                     sh \in PairShapes, raw \in PairAngles}

\* lines 95-140, all iterations; in the end "last" is what was done to the
\* hand of side keep (None if that side had no hand)
RECURSIVE ProcessHands(_, _, _, _, _)
ProcessHands(r, hands, t, keep, kept) ==
    IF hands = << >> THEN [r EXCEPT !.last = kept]
    ELSE LET r2 == ProcessOneHand(r, Head(hands), "ok", t)
         IN  ProcessHands(r2, Tail(hands), t, keep,
                          IF Head(hands).side = keep THEN r2.last ELSE kept)

\* lines 79-140: one whole frame
WholeFrame(r, hands, t, keep) ==
    ProcessHands(BeginFrame(r, hands), hands, t, keep, None)

PairFrame ==
    /\ nframes < MaxPairFrames
    /\ \E own \in PairViews(fixed), o1 \in PairViews(Other(fixed)),
          o2 \in PairViews(Other(fixed)), first1 \in BOOLEAN, first2 \in BOOLEAN :
          /\ run' = WholeFrame(run, IF first1 THEN own \o o1 ELSE o1 \o own,
                               now + 1, fixed)
          /\ twin' = WholeFrame(twin, IF first2 THEN own \o o2 ELSE o2 \o own,
                                now + 1, fixed)
    /\ now' = now + 1
    /\ nframes' = nframes + 1
    /\ UNCHANGED <<cfg, fixed, pc, queue, nexternal, nfailures, nboth, e2e>>

InitPair == \E f \in Sides : InitWith(DefaultConfig, f)
SpecPair == InitPair /\ [][PairFrame]_vars

\* what a run shows of one channel after a frame
Channel(r, side) ==
    [seen |-> r.last # None,
     is_claw |-> IF r.last # None THEN r.last[1].is_claw ELSE FALSE,
     rotation |-> IF r.last # None THEN r.last[1].rotation ELSE None,
     calls |-> IF r.last # None THEN r.last[1].calls ELSE << >>,
     prev_angle |-> r.prev_angle[side]]

------------------------------------------------------------------------------
\* What the hand processed last did (defined when a hand has been processed
\* in the current frame)
Processed == run.last # None
Last == run.last[1]
SetCalls(calls) == {i \in 1..Len(calls) : calls[i].op = "set_level"}

\* C1: every value the core passes to set_level lies in the channel's range,
\* [0,100] for the volume channel (Right) and [5,100] for the brightness
\* channel (Left), whatever get_level returned.
C1_SetLevelInRange ==
    Processed =>
        \A i \in SetCalls(Last.calls) :
            /\ Last.calls[i].side = Last.side
            /\ Last.side = "Right" => Last.calls[i].v \in 0..100
            /\ Last.side = "Left" => Last.calls[i].v \in 5..100

\* a set_level whose candidate had to be clamped: the sink reported 150
C1_Witness ==
    /\ Processed
    /\ Last.side = "Right"
    /\ Len(Last.calls) = 2
    /\ Last.calls[1].v = 150
    /\ Last.change > 0
    /\ Last.calls[2].v = 100

\* C2: the two channels share no mutable state: two runs that give one side
\* the same observations at the same times, and differ only in what the
\* other side shows, agree on that side's claw classifications, tracked
\* rotation angles, previous accepted angle and set_level calls.
C2_ChannelsIndependent == Channel(run, fixed) = Channel(twin, fixed)

\* C3: in the delta-mode handlers, when a previous accepted angle exists and
\* delta_level is 0, set_level is not called, the rate limiter is not
\* consulted, and the previous accepted angle after the frame equals the one
\* before the frame.
C3_ZeroDeltaKeepsPrev ==
    (Processed /\ Last.is_claw /\ Last.prev_before # None /\ Last.change = 0) =>
        /\ Last.calls = << >>
        /\ ~Last.consulted
        /\ run.limiter[Last.side] # now
        /\ run.prev_angle[Last.side] = Last.prev_before

\* C4: a frame with no hand leaves each channel as a not-claw frame does
\* (tracker reset, smoother unset, previous accepted angle none); so the
\* first claw frame after a hand-lost gap only sets a baseline and issues no
\* set_level.
C4_NoHandFrameResets ==
    (pc = "grab" /\ run.empty) =>
        /\ run.rotation_calc = ResetRotation
        /\ \A s \in Sides : run.smoother[s] = None /\ run.prev_angle[s] = None

C4_BaselineAfterGap ==
    (Processed /\ Last.is_claw /\ run.last_empty) =>
        /\ Last.prev_before = None
        /\ Last.calls = << >>

C4_HandLostIsNoClaw == C4_NoHandFrameResets /\ C4_BaselineAfterGap

\* C5: whenever a side has a claw hand in a frame that follows a frame in
\* which that side had no claw hand, the tracker is in its reset state before
\* that update and the angle it returns is 0.
C5_FreshTrackingStartsAtZero ==
    (Processed /\ Last.is_claw /\ Last.side \notin run.last_claw) =>
        /\ Last.reset_before
        /\ Last.rotation = Some(0)

\* C6: with only a Right-hand claw on three consecutive frames at raw angles
\* 0, 30, 60, alpha 1, interval 0 and a sink that starts at 50 and applies
\* every set_level, the level is 50 after the first frame (no set_level),
\* 80 after the second and 100 after the third (candidate 110 clamped).
C6_EndToEnd ==
    /\ (e2e = 1 /\ pc = "grab") =>
            run.level["Right"] = 50 /\ Last.calls = << >>
    /\ (e2e = 2 /\ pc = "grab") =>
            /\ run.level["Right"] = 80
            /\ Last.calls = <<GetCall("Right", 50), SetCall("Right", 80)>>
    /\ (e2e = 3 /\ pc = "grab") =>
            /\ run.level["Right"] = 100
            /\ Last.change = 30
            /\ Last.calls = <<GetCall("Right", 80), SetCall("Right", 100)>>

C6_Witness == e2e = 3 /\ pc = "grab" /\ run.level["Right"] = 100

\* C10: when delta_level is nonzero but the rate limiter refuses, no
\* set_level is issued and the previous accepted angle is kept (the smoothed
\* angle is not adopted); on the next claw frame the delta is computed from
\* the new smoothed angle and that same stale previous accepted angle.
C10_RefusedIsDeferred ==
    Processed =>
        /\ (Last.consulted /\ ~Last.permitted) =>
                /\ Last.change # 0
                /\ SetCalls(Last.calls) = {}
                /\ run.prev_angle[Last.side] = Last.prev_before
                /\ run.prev_angle[Last.side] # Last.smoothed
        /\ (Last.is_claw /\ Last.deferred_before # None) =>
                /\ Last.prev_before = Last.deferred_before
                /\ LET d == Val(Last.smoothed) - Val(Last.deferred_before)
                   IN  /\ Abs(Last.change) = Abs(d) \div Scale
                       /\ Last.change > 0 => d > 0
                       /\ Last.change < 0 => d < 0

\* a refused rotation is applied by the next claw frame, the limiter open again
C10_Witness ==
    /\ Processed
    /\ Last.is_claw
    /\ Last.deferred_before # None
    /\ Last.permitted
    /\ SetCalls(Last.calls) # {}

\* C7: for a hand whose fingers-close count meets the finger threshold in
\* force, a spread s with max_spread <= s < 1.2 * max_spread is classified
\* as the previous classification was: true stays true, false stays false.
C7_HysteresisBand ==
    (/\ Processed
     /\ Last.spread >= MAX_FINGERTIP_SPREAD
     /\ Last.spread * 10 < 12 * MAX_FINGERTIP_SPREAD
     /\ Last.fingers >= (IF Last.was_claw THEN Max(2, MIN_FINGERS_CLOSE - 1)
                                          ELSE MIN_FINGERS_CLOSE)) =>
        /\ Last.is_claw = Last.was_claw
        /\ run.is_claw = Last.was_claw

\* a hand in the band, with two fingers close, stays a claw
C7_Witness ==
    /\ Processed
    /\ Last.spread = 179
    /\ Last.fingers = 2
    /\ Last.was_claw
    /\ Last.is_claw

\* C8: between resets the increment added to the accumulated angle is
\* raw - last_raw, shifted by -360 above 180 and by +360 below -180, so it
\* lies in [-180, 180] (179 then -179 adds 2, -179 then 179 adds -2); the
\* accumulated angle is the running sum and is not wrapped into +-180.
C8_Unwrapping ==
    (Processed /\ Last.rc_before.last_raw_angle # None) =>
        LET d == Last.raw - Val(Last.rc_before.last_raw_angle)
            inc == run.rotation_calc.accumulated_angle
                       - Last.rc_before.accumulated_angle
        IN  /\ inc = (IF d > 180 THEN d - 360 ELSE IF d < -180 THEN d + 360 ELSE d)
            /\ inc \in -180..180
            /\ (Last.rc_before.last_raw_angle = Some(179) /\ Last.raw = -179) => inc = 2
            /\ (Last.rc_before.last_raw_angle = Some(-179) /\ Last.raw = 179) => inc = -2
            /\ Last.ret = (IF Last.side = "Left" THEN -1 ELSE 1)
                              * run.rotation_calc.accumulated_angle

\* the seam is crossed and the accumulated angle leaves +-180
C8_Witness ==
    /\ Processed
    /\ Last.rc_before.last_raw_angle = Some(179)
    /\ Last.raw = -179
    /\ run.rotation_calc.accumulated_angle > 180

\* C9: should_update returns true and records the current time iff the
\* current time minus the stored reference is at least min_interval;
\* otherwise it returns false and leaves the reference unchanged.  The
\* first call on a fresh or reset limiter returns true.
C9_RateLimiter ==
    Processed =>
        /\ Last.ret <=> (Last.t - Last.ref_before >= cfg.min_interval)
        /\ Last.ret => run.limiter[Last.side] = Last.t
        /\ ~Last.ret => run.limiter[Last.side] = Last.ref_before
        /\ Last.ref_before = 0 => Last.ret

\* a limiter that refused reopens exactly min_interval after its last true call
C9_Witness ==
    /\ Processed
    /\ cfg.min_interval = 2
    /\ Last.ret
    /\ Last.ref_before > 0
    /\ Last.t - Last.ref_before = cfg.min_interval

\* C11: the first update of a smoother after construction or reset returns
\* its input and stores it; every later update returns and stores
\* alpha*x + (1-alpha)*y_prev, y_prev the value returned before; so after
\* update(a), update(b) returns b for alpha 1 and 0.3*b + 0.7*a for alpha 0.3.
C11_Smoother ==
    Processed =>
        /\ run.smoother[Last.side] = Some(Last.ret)
        /\ Last.value_before = None => Last.ret = Last.x
        /\ Last.value_before # None =>
                /\ ALPHA_DEN * Last.ret =
                       cfg.alpha * Last.x + (ALPHA_DEN - cfg.alpha) * Val(Last.value_before)
                /\ cfg.alpha = ALPHA_DEN => Last.ret = Last.x
                /\ cfg.alpha = 3 =>
                       10 * Last.ret = 3 * Last.x + 7 * Val(Last.value_before)

\* update(10) then update(20) with alpha 0.3 returns 13
C11_Witness ==
    /\ Processed
    /\ cfg.alpha = 3
    /\ Last.value_before = Some(10 * Scale)
    /\ Last.x = 20 * Scale
    /\ Last.ret = 13 * Scale

\* C12: identical landmark frames fed to the rotation tracker after a reset
\* leave the accumulated angle at 0: it is 0 after the first call, and a call
\* with the raw angle of the call before leaves it at 0; the angle returned
\* is 0 on each of these frames.
C12_IdenticalFramesStayAtZero ==
    Processed =>
        /\ Last.rc_before = ResetRotation =>
                /\ run.rotation_calc.accumulated_angle = 0
                /\ run.rotation_calc.last_raw_angle = Some(Last.raw)
                /\ Last.ret = 0
        /\ (/\ Last.rc_before.last_raw_angle = Some(Last.raw)
            /\ Last.rc_before.accumulated_angle = 0) =>
                /\ run.rotation_calc.accumulated_angle = 0
                /\ run.rotation_calc.last_raw_angle = Some(Last.raw)
                /\ Last.ret = 0

\* a third frame at 90 degrees after a reset and two frames at 90 degrees
C12_Witness ==
    /\ Processed
    /\ nframes >= 3
    /\ Last.raw = 90
    /\ Last.rc_before = [accumulated_angle |-> 0, last_raw_angle |-> Some(90),
                         baseline_angle |-> Some(90)]
    /\ run.rotation_calc.accumulated_angle = 0
    /\ Last.ret = 0

\* the smoothed angle delta of the handler call, in 1/Scale degree
AngleDelta == Val(Last.smoothed) - Val(Last.prev_before)

\* C13, as claimed: the level delta is angle_delta / 10.0 * 10 rounded to the
\* nearest integer (1.6 degrees gives 2, -0.6 degrees gives -1).
C13_DeltaIsRounded ==
    (Processed /\ Last.prev_before # None) =>
        /\ 2 * Abs(Last.change * Scale - AngleDelta) <= Scale
        /\ 10 * AngleDelta = 16 * Scale => Last.change = 2
        /\ 10 * AngleDelta = -6 * Scale => Last.change = -1

\* C13, amended: the level delta is angle_delta / 10.0 * 10 with its
\* fractional part dropped (1.6 degrees gives 1, -0.6 degrees gives 0).
C13_DeltaIsTruncated ==
    (Processed /\ Last.prev_before # None) =>
        /\ Last.change = (IF AngleDelta >= 0 THEN 1 ELSE -1) * (Abs(AngleDelta) \div Scale)
        /\ 10 * AngleDelta = 16 * Scale => Last.change = 1
        /\ 10 * AngleDelta = -6 * Scale => Last.change = 0

\* an angle delta of 1.6 degrees changes the level by 1
C13_Witness ==
    /\ Processed
    /\ Last.prev_before # None
    /\ 10 * AngleDelta = 16 * Scale
    /\ Last.change = 1
    /\ SetCalls(Last.calls) # {}

\* C14: every set_level(v) follows, in the same handler call and with no
\* other set_level between, a get_level on the same sink, and v is the
\* clamped sum of the level that get_level returned and delta_level; the
\* level get_level returns is what the sink reports at that moment (the
\* default if the command fails), also after a set_level that did not take
\* effect: no level is kept from one frame to the next.
C14_GetBeforeSet ==
    Processed =>
        /\ \A i \in SetCalls(Last.calls) :
              /\ i = 2
              /\ Last.calls[1].op = "get_level"
              /\ Last.calls[1].side = Last.side /\ Last.calls[2].side = Last.side
              /\ Last.calls[2].v =
                    Max(IF Last.side = "Right" THEN 0 ELSE 5,
                        Min(100, Last.calls[1].v + Last.change))
        /\ \A i \in 1..Len(Last.calls) :
              Last.calls[i].op = "get_level" =>
                  Last.calls[i].v = (IF Last.failed = "get_fails" THEN DEFAULT_LEVEL
                                                                  ELSE Last.level_before)

\* the set_level before failed; this one starts from the level the sink
\* reports, which is not the value written then
C14_Witness ==
    /\ Processed
    /\ Last.unapplied_before # None
    /\ Last.unapplied_before # Some(Last.level_before)
    /\ Last.failed = "ok"
    /\ SetCalls(Last.calls) = {2}
    /\ Last.calls[1].v = Last.level_before
    /\ Last.calls[2].v # Last.level_before

\* C15: after a hand classified not-claw is processed, the rotation tracker
\* is in its reset state (baseline none, last raw angle none, accumulated
\* angle 0), that side's smoother is unset, that side's previous accepted
\* angle is none, and no get_level or set_level was issued for that side.
C15_NotClawResets ==
    (Processed /\ ~Last.is_claw) =>
        /\ run.rotation_calc = [accumulated_angle |-> 0, last_raw_angle |-> None,
                                baseline_angle |-> None]
        /\ run.smoother[Last.side] = None
        /\ run.prev_angle[Last.side] = None
        /\ Last.calls = << >>

\* a hand that was being tracked opens: tracker, smoother and previous angle
\* were all set before
C15_Witness ==
    /\ Processed
    /\ ~Last.is_claw
    /\ ~Last.reset_before
    /\ Last.prev_before # None
    /\ Last.side \in run.last_claw
    /\ run.prev_angle[Last.side] = None

\* C16: a rate limiter's reference time changes only in a should_update call
\* that returns true, where it becomes the current time: a frame without
\* hands and a hand that is not a claw leave both references as they are,
\* so a cooldown outlasts an idle period shorter than min_interval.
C16_IdleKeepsLimiter ==
    [][\A s \in Sides :
          run'.limiter[s] # run.limiter[s] =>
              /\ run'.last # None
              /\ run'.last[1].side = s
              /\ run'.last[1].is_claw
              /\ run'.last[1].consulted /\ run'.last[1].permitted
              /\ run'.limiter[s] = now']_vars

\* the frame after a committed set_level is idle (no hand, or the hand is not
\* a claw): the cooldown is still running and the reference is still the
\* time of that set_level
C16_Witness ==
    /\ pc = "grab"
    /\ run.empty \/ (Processed /\ ~Last.is_claw)
    /\ \E s \in run.last_claw \ run.claw_sides :
          /\ run.limiter[s] = now - 1
          /\ now - run.limiter[s] < cfg.min_interval

\* C17: when a hand is classified in a frame that follows a frame in which
\* that side had no hand, the previous-is-claw value the classifier uses is
\* false, so the hand is judged with the tight thresholds
\* (spread < max_spread, fingers_close >= min_fingers_close).
C17_ReappearingHandJudgedTight ==
    (Processed /\ Last.side \notin run.last_seen) =>
        ~Last.was_claw

\* C18: on a claw frame where the channel's previous accepted angle is none,
\* the handler adopts the smoothed angle as the previous accepted angle and
\* calls neither get_level, set_level nor the rate limiter's should_update.
C18_BaselineCase ==
    (Processed /\ Last.prev_before = None) =>
        /\ run.prev_angle[Last.side] = Last.smoothed
        /\ Last.calls = << >>
        /\ ~Last.consulted
        /\ run.limiter[Last.side] = Last.limiter_before
        /\ run.level[Last.side] = Last.level_before

\* a baseline at 3 degrees taken while the limiter's cooldown is running
C18_Witness ==
    /\ Processed
    /\ Last.prev_before = None
    /\ Last.limiter_before = now - 1
    /\ run.prev_angle[Last.side] = Some(3 * Scale)
    /\ Last.calls = << >>

\* C19: fed the same raw angles from a reset, the tracker returns for a hand
\* labelled Left, at every step, the negation of what it returns for a hand
\* labelled Right, and the accumulated angle it stores is the same for both.
C19_LeftMirrorsRight ==
    Processed =>
        /\ twin.last # None
        /\ twin.last[1].raw = Last.raw
        /\ twin.last[1].ret = -Last.ret
        /\ twin.rotation_calc = run.rotation_calc
        /\ Last.ret = run.rotation_calc.accumulated_angle

\* an accumulated 179 degrees: 179 for the Right hand, -179 for the Left hand
C19_Witness ==
    /\ Processed
    /\ Last.ret = 179
    /\ twin.last = Some([side |-> "Left", raw |-> 179, ret |-> -179])
    /\ twin.rotation_calc.accumulated_angle = 179

\* C20: get_level of each sink returns an integer within the channel's range,
\* 0..100 for VolumeController and 5..100 for BrightnessController, whatever
\* the command prints and also when it fails or is missing.
C20_GetLevelInRange ==
    Processed =>
        /\ Last.side = "Right" => Last.ret \in 0..100
        /\ Last.side = "Left" => Last.ret \in 5..100

\* C21: the conversion of the smoothed angle delta to a level step drops the
\* fractional part, toward zero: the step has the sign of the delta and its
\* magnitude is the whole degrees in the delta's magnitude, so a delta of
\* magnitude below 1 degree gives 0, 1.9 degrees gives 1 and -1.9 degrees
\* gives -1.
C21_TruncatesTowardZero ==
    (Processed /\ Last.prev_before # None) =>
        /\ Abs(Last.change) * Scale <= Abs(AngleDelta)
        /\ Abs(AngleDelta) < (Abs(Last.change) + 1) * Scale
        /\ Last.change * AngleDelta >= 0
        /\ Abs(AngleDelta) < Scale => Last.change = 0
        /\ 10 * AngleDelta = 19 * Scale => Last.change = 1
        /\ 10 * AngleDelta = -19 * Scale => Last.change = -1

\* an angle delta of -1.9 degrees lowers the level by 1
C21_Witness ==
    /\ Processed
    /\ Last.prev_before # None
    /\ 10 * AngleDelta = -19 * Scale
    /\ Last.change = -1
    /\ Last.calls # << >>

\* C22: the tracker is never partially reset: after any calls of
\* calculate_roll and reset, baseline_angle is none exactly when
\* last_raw_angle is none, and then accumulated_angle is 0; reset leaves all
\* three fields cleared.
C22_NeverPartiallyReset ==
    LET rc == run.rotation_calc
    IN  /\ rc.baseline_angle = None <=> rc.last_raw_angle = None
        /\ rc.baseline_angle = None => rc.accumulated_angle = 0
        /\ ~Processed => /\ rc.baseline_angle = None
                         /\ rc.last_raw_angle = None
                         /\ rc.accumulated_angle = 0
        /\ Processed => rc.baseline_angle # None /\ rc.last_raw_angle # None

\* a reset after at least two calls of calculate_roll
C22_Witness ==
    /\ ~Processed
    /\ nframes >= 2
    /\ run.rotation_calc = [accumulated_angle |-> 0, last_raw_angle |-> None,
                            baseline_angle |-> None]

\* C23: on each channel any two set_level calls are at least min_interval
\* apart in time, idle frames and smoother resets between them or not, and a
\* set_level is issued only in a handler call whose should_update returned
\* true.
C23_SetLevelsSpacedOut ==
    /\ \A s \in Sides :
          run.prev_set[s] # None =>
              Val(run.last_set[s]) - Val(run.prev_set[s]) >= cfg.min_interval
    /\ Processed =>
          (SetCalls(Last.calls) # {} =>
              /\ Last.consulted /\ Last.permitted
              /\ run.last_set[Last.side] = Some(now))

\* a second set_level on a channel, min_interval after the first, the
\* channel idle in the frame between them
C23_Witness ==
    /\ Processed
    /\ SetCalls(Last.calls) # {}
    /\ Last.side \notin run.last_claw
    /\ run.prev_set[Last.side] # None
    /\ now - Val(run.prev_set[Last.side]) = cfg.min_interval

\* C24: the loose thresholds are never stricter than the tight ones: for
\* every min_fingers_close in 1..4 and every hand, if detect returns true
\* with the previous classification false it returns true for the same hand
\* with the previous classification true; so a hand that stays the same is
\* not classified claw in one frame and not-claw in the next.
C24_LooseNeverStricter ==
    Processed =>
        /\ Last.tight => Last.loose
        /\ (Last.repeated /\ Last.was_claw) => Last.is_claw

\* C25: handle_volume_control and handle_brightness_control, called side by
\* side with the same rotation angles, the same limiter decisions and the same
\* get_level values, return the same previous accepted angle at every step
\* and call set_level in the same steps; the value set differs only where the
\* volume value is below 5, and the brightness value is then 5.
SetValues(calls) == {calls[i].v : i \in SetCalls(calls)}

C25_HandlersAgree ==
    Processed =>
        /\ twin.last # None
        /\ run.prev_angle["Right"] = twin.prev_angle["Left"]
        /\ Last.ret = twin.last[1].ret
        /\ Last.permitted = twin.last[1].permitted
        /\ SetIssued(Last.calls) <=> SetIssued(twin.last[1].calls)
        /\ Len(Last.calls) = Len(twin.last[1].calls)
        /\ \A vv \in SetValues(Last.calls), bv \in SetValues(twin.last[1].calls) :
              /\ vv >= BRIGHTNESS_MIN => bv = vv
              /\ vv < BRIGHTNESS_MIN => bv = BRIGHTNESS_MIN

C25_Witness ==
    /\ Processed
    /\ nframes = MaxSideCalls
    /\ \E vv \in SetValues(Last.calls), bv \in SetValues(twin.last[1].calls) : vv # bv
    /\ run.prev_angle["Right"] # None

\* C26: a missing or failing sink command never aborts the pass: set_level
\* returns without raising, get_level returns the default 50; the handler
\* then hands clamp(50 + delta_level) to set_level, and whenever the limiter
\* permits, the smoothed angle becomes the previous accepted angle.
C26_FailingSinkTolerated ==
    Processed =>
        /\ Last.raised = "none"
        /\ pc # "aborted"
        /\ Last.get_cmd # "ok" =>
              /\ Last.calls[1] = GetCall(Last.side, DEFAULT_LEVEL)
              /\ \A i \in SetCalls(Last.calls) :
                    Last.calls[i].v = Max(ChannelMin(Last.side),
                                          Min(ChannelMax(Last.side),
                                              DEFAULT_LEVEL + Last.change))
        /\ ((Last.get_cmd # "ok" \/ Last.set_cmd # "ok") /\ Last.permitted) =>
              /\ SetCalls(Last.calls) # {}
              /\ run.prev_angle[Last.side] = Last.smoothed

C26_Witness ==
    /\ Processed
    /\ nframes = MaxHandlerCalls
    /\ Last.get_cmd = "fails"
    /\ Last.set_cmd = "missing"
    /\ Last.permitted
    /\ Last.change < 0
    /\ run.prev_angle[Last.side] = Last.smoothed
    /\ run.level[Last.side] = DEFAULT_LEVEL

====
